---- MODULE Spec2Model ----
(***************************************************************************)
(* Library circulation (src/library_cli.py): books, members and            *)
(* borrow_records live in a shared table store; every sb...execute() call   *)
(* of the program is one atomic statement on that store.  Several clients   *)
(* (CLI instances) run the functions of the program concurrently, so the    *)
(* statements of different calls interleave.                                *)
(*                                                                         *)
(* The store is the plain table store the program assumes: a statement      *)
(* reads or writes the rows its filter selects, an update or delete that    *)
(* selects no row changes nothing, and the tables carry no constraint of    *)
(* their own.                                                               *)
(***************************************************************************)
EXTENDS Integers, Sequences, FiniteSets, TLC

\* ---------------------------------------------------------------- bounds
NumClients == 2      \* concurrent callers of the program
MaxCalls == 3        \* calls the clients make in all
MaxBooks == 2        \* book ids the store hands out
MaxMembers == 3      \* member ids the store hands out
MaxStock == 1        \* largest stock a caller passes or the store starts with
MaxRecords == 2      \* rows of borrow_records
MaxTime == 1         \* days the store's clock advances one at a time
MaxLimit == 2        \* largest limit a caller passes to report_top_borrowed

Clients == 1..NumClients
StockInputs == (-1)..MaxStock      \* int(input("Stock: ")) may be negative
NULL == -1                             \* return_date IS NULL
DefaultLimit == 5                      \* report_top_borrowed(limit=5)
OverdueDays == 14                      \* INTERVAL '14 days'
Limits == (0..MaxLimit) \cup {DefaultLimit}

VARIABLES
    books,           \* book_id -> stock, for the rows of table books
    members,         \* set of member_id, the rows of table members
    borrow_records,  \* sequence of rows; record_id is the index
    next_book_id,    \* the id the store gives the next inserted book
    next_member_id,  \* the id the store gives the next inserted member
    now,             \* the store's clock, NOW()
    initial_stock,   \* book_id -> stock the book row was created with
    pc,              \* client -> the statement it is about to execute
    op,              \* client -> the function it called last
    member_id,       \* client -> argument member_id of that call
    book_id,         \* client -> argument book_id of that call
    stock_read,      \* client -> book[0]["stock"] / book["stock"] it read
    rec_id,          \* client -> rec_id local of return_book
    result,          \* client -> what the call printed / how it ended
    calls,           \* client -> number of calls it has made
    report           \* the last report printed: its name, limit and rows

store == <<books, members, borrow_records, next_book_id, next_member_id, initial_stock>>
locals == <<pc, op, member_id, book_id, stock_read, rec_id, result, calls>>
vars == <<books, members, borrow_records, next_book_id, next_member_id, now,
          initial_stock, pc, op, member_id, book_id, stock_read, rec_id, result, calls,
          report>>

\* ---------------------------------------------------------------- helpers
\* ids a caller may pass: those the store has handed out (the row may be gone)
BookIds == 1..(next_book_id - 1)
MemberIds == 1..(next_member_id - 1)

IsOpen(r) == r.return_date = NULL

\* .eq("member_id", m).eq("book_id", b).is_("return_date", None)
OpenFor(recs, m, b) ==
    {i \in 1..Len(recs) : recs[i].member_id = m /\ recs[i].book_id = b /\ IsOpen(recs[i])}

\* .eq("book_id", b).is_("return_date", None)
OpenForBook(recs, b) == {i \in 1..Len(recs) : recs[i].book_id = b /\ IsOpen(recs[i])}

\* .eq("member_id", m).is_("return_date", None)
OpenForMember(recs, m) == {i \in 1..Len(recs) : recs[i].member_id = m /\ IsOpen(recs[i])}

RECURSIVE CallsUpTo(_)
CallsUpTo(n) == IF n = 0 THEN 0 ELSE calls[n] + CallsUpTo(n - 1)
TotalCalls == CallsUpTo(NumClients)

\* a client starts a call: its arguments are bound and the call is counted
Begin(c, f, m, b) ==
    /\ pc[c] = "idle"
    /\ TotalCalls < MaxCalls
    /\ calls' = [calls EXCEPT ![c] = @ + 1]
    /\ op' = [op EXCEPT ![c] = f]
    /\ member_id' = [member_id EXCEPT ![c] = m]
    /\ book_id' = [book_id EXCEPT ![c] = b]

\* a call returns (or raises): its locals die
End(c, r) ==
    /\ pc' = [pc EXCEPT ![c] = "idle"]
    /\ result' = [result EXCEPT ![c] = r]
    /\ stock_read' = [stock_read EXCEPT ![c] = 0]
    /\ rec_id' = [rec_id EXCEPT ![c] = 0]

Goto(c, l) ==
    /\ pc' = [pc EXCEPT ![c] = l]
    /\ result' = [result EXCEPT ![c] = "running"]

Same(c) == UNCHANGED <<op, member_id, book_id, calls, report>>

NoReport == [name |-> "none", limit |-> 0, rows |-> <<>>]

\* ---------------------------------------------------------------- Init
Init ==
    /\ books \in [{1} -> 0..MaxStock]
    /\ initial_stock = books
    /\ members = {1, 2}
    /\ borrow_records = <<>>
    /\ next_book_id = 2
    /\ next_member_id = 3
    /\ now = 0
    /\ pc = [c \in Clients |-> "idle"]
    /\ op = [c \in Clients |-> "none"]
    /\ member_id = [c \in Clients |-> 0]
    /\ book_id = [c \in Clients |-> 0]
    /\ stock_read = [c \in Clients |-> 0]
    /\ rec_id = [c \in Clients |-> 0]
    /\ result = [c \in Clients |-> "none"]
    /\ calls = [c \in Clients |-> 0]
    /\ report = NoReport

\* ---------------------------------------------------------------- inserts, update
add_member(c) ==
    /\ next_member_id <= MaxMembers
    /\ Begin(c, "add_member", next_member_id, 0)
    /\ members' = members \cup {next_member_id}
    /\ next_member_id' = next_member_id + 1
    /\ End(c, "ok")
    /\ UNCHANGED <<books, borrow_records, next_book_id, initial_stock, now, report>>

add_book(c, stock) ==
    /\ next_book_id <= MaxBooks
    /\ Begin(c, "add_book", 0, next_book_id)
    /\ books' = [b \in DOMAIN books \cup {next_book_id} |->
                    IF b = next_book_id THEN stock ELSE books[b]]
    /\ initial_stock' = [b \in DOMAIN initial_stock \cup {next_book_id} |->
                    IF b = next_book_id THEN stock ELSE initial_stock[b]]
    /\ next_book_id' = next_book_id + 1
    /\ End(c, "ok")
    /\ UNCHANGED <<members, borrow_records, next_member_id, now, report>>

update_book_stock(c, b, new_stock) ==
    /\ Begin(c, "update_book_stock", 0, b)
    /\ books' = [x \in DOMAIN books |-> IF x = b THEN new_stock ELSE books[x]]
    /\ End(c, "ok")
    /\ UNCHANGED <<members, borrow_records, next_book_id, next_member_id, initial_stock, now,
                   report>>

\* ---------------------------------------------------------------- borrow_book
\* borrow_records has room for the record of one more borrow_book call
RoomForRecord ==
    Len(borrow_records)
      + Cardinality({d \in Clients : pc[d] \in {"borrow_update", "borrow_insert"}})
      < MaxRecords

\* borrow_book with the availability test written "< 0"
borrow_book_lt(c, m, b) ==
    /\ Begin(c, "borrow_book", m, b)
    /\ RoomForRecord
    /\ IF b \notin DOMAIN books
         THEN End(c, "NotFound")
         ELSE IF books[b] < 0
           THEN End(c, "Unavailable")
           ELSE /\ Goto(c, "borrow_update")
                /\ stock_read' = [stock_read EXCEPT ![c] = books[b]]
                /\ UNCHANGED rec_id
    /\ UNCHANGED <<store, now, report>>

borrow_book(c, m, b) ==
    /\ Begin(c, "borrow_book", m, b)
    /\ RoomForRecord
    /\ IF b \notin DOMAIN books
         THEN End(c, "NotFound")
         ELSE IF books[b] <= 0
           THEN End(c, "Unavailable")
           ELSE /\ Goto(c, "borrow_update")
                /\ stock_read' = [stock_read EXCEPT ![c] = books[b]]
                /\ UNCHANGED rec_id
    /\ UNCHANGED <<store, now, report>>

\* borrow_update as a retry loop that never refreshes the stock it read
borrow_update_spin(c) ==
    /\ pc[c] = "borrow_update"
    /\ IF book_id[c] \in DOMAIN books /\ books[book_id[c]] # stock_read[c]
         THEN UNCHANGED vars
         ELSE /\ books' = [x \in DOMAIN books |->
                            IF x = book_id[c] THEN stock_read[c] - 1 ELSE books[x]]
              /\ Goto(c, "borrow_insert")
              /\ Same(c)
              /\ UNCHANGED <<members, borrow_records, next_book_id, next_member_id,
                             initial_stock, now, stock_read, rec_id>>

borrow_update(c) ==
    /\ pc[c] = "borrow_update"
    /\ books' = [x \in DOMAIN books |->
                    IF x = book_id[c] THEN stock_read[c] - 1 ELSE books[x]]
    /\ Goto(c, "borrow_insert")
    /\ Same(c)
    /\ UNCHANGED <<members, borrow_records, next_book_id, next_member_id,
                   initial_stock, now, stock_read, rec_id>>

borrow_insert(c) ==
    /\ pc[c] = "borrow_insert"
    /\ borrow_records' = Append(borrow_records,
            [member_id |-> member_id[c], book_id |-> book_id[c],
             borrow_date |-> now, return_date |-> NULL])
    /\ End(c, "ok")
    /\ Same(c)
    /\ UNCHANGED <<books, members, next_book_id, next_member_id, initial_stock, now>>

\* ---------------------------------------------------------------- return_book
\* return_book with the is_("return_date", None) filter left out
return_book_any_record(c, m, b) ==
    /\ Begin(c, "return_book", m, b)
    /\ LET found == {i \in 1..Len(borrow_records) :
                        /\ borrow_records[i].member_id = m
                        /\ borrow_records[i].book_id = b}
       IN IF found = {}
            THEN End(c, "NotFound")
            ELSE \E i \in found :
                   /\ Goto(c, "return_close")
                   /\ rec_id' = [rec_id EXCEPT ![c] = i]
                   /\ UNCHANGED stock_read
    /\ UNCHANGED <<store, now, report>>

return_book(c, m, b) ==
    /\ Begin(c, "return_book", m, b)
    /\ IF OpenFor(borrow_records, m, b) = {}
         THEN End(c, "NotFound")
         ELSE \E i \in OpenFor(borrow_records, m, b) :   \* limit(1), no order
                /\ Goto(c, "return_close")
                /\ rec_id' = [rec_id EXCEPT ![c] = i]
                /\ UNCHANGED stock_read
    /\ UNCHANGED <<store, now, report>>

return_close(c) ==
    /\ pc[c] = "return_close"
    /\ borrow_records' = [borrow_records EXCEPT ![rec_id[c]].return_date = now]
    /\ Goto(c, "return_select_stock")
    /\ Same(c)
    /\ UNCHANGED <<books, members, next_book_id, next_member_id, initial_stock,
                   now, stock_read, rec_id>>

return_select_stock(c) ==
    /\ pc[c] = "return_select_stock"
    /\ IF book_id[c] \notin DOMAIN books
         THEN End(c, "IndexError")            \* .data[0] of an empty list
         ELSE /\ Goto(c, "return_update")
              /\ stock_read' = [stock_read EXCEPT ![c] = books[book_id[c]]]
              /\ UNCHANGED rec_id
    /\ Same(c)
    /\ UNCHANGED <<store, now, report>>

\* return_update writing the stock it read, without the + 1
return_update_no_increment(c) ==
    /\ pc[c] = "return_update"
    /\ books' = [x \in DOMAIN books |->
                    IF x = book_id[c] THEN stock_read[c] ELSE books[x]]
    /\ End(c, "ok")
    /\ Same(c)
    /\ UNCHANGED <<members, borrow_records, next_book_id, next_member_id,
                   initial_stock, now>>

return_update(c) ==
    /\ pc[c] = "return_update"
    /\ books' = [x \in DOMAIN books |->
                    IF x = book_id[c] THEN stock_read[c] + 1 ELSE books[x]]
    /\ End(c, "ok")
    /\ Same(c)
    /\ UNCHANGED <<members, borrow_records, next_book_id, next_member_id,
                   initial_stock, now>>

\* ---------------------------------------------------------------- deletes
delete_member(c, m) ==
    /\ Begin(c, "delete_member", m, 0)
    /\ IF OpenForMember(borrow_records, m) # {}
         THEN End(c, "Conflict")
         ELSE /\ Goto(c, "delete_member_delete")
              /\ UNCHANGED <<stock_read, rec_id>>
    /\ UNCHANGED <<store, now, report>>

delete_member_delete(c) ==
    /\ pc[c] = "delete_member_delete"
    /\ members' = members \ {member_id[c]}
    /\ End(c, "ok")
    /\ Same(c)
    /\ UNCHANGED <<books, borrow_records, next_book_id, next_member_id,
                   initial_stock, now>>

\* delete_book without the open_borrows test
delete_book_unguarded(c, b) ==
    /\ Begin(c, "delete_book", 0, b)
    /\ Goto(c, "delete_book_delete")
    /\ UNCHANGED <<stock_read, rec_id>>
    /\ UNCHANGED <<store, now, report>>

delete_book(c, b) ==
    /\ Begin(c, "delete_book", 0, b)
    /\ IF OpenForBook(borrow_records, b) # {}
         THEN End(c, "Conflict")
         ELSE /\ Goto(c, "delete_book_delete")
              /\ UNCHANGED <<stock_read, rec_id>>
    /\ UNCHANGED <<store, now, report>>

delete_book_delete(c) ==
    /\ pc[c] = "delete_book_delete"
    /\ books' = [x \in DOMAIN books \ {book_id[c]} |-> books[x]]
    /\ initial_stock' = [x \in DOMAIN initial_stock \ {book_id[c]} |-> initial_stock[x]]
    /\ End(c, "ok")
    /\ Same(c)
    /\ UNCHANGED <<members, borrow_records, next_book_id, next_member_id, now>>

\* ---------------------------------------------------------------- reports
\* the book ids of the rows, each once, in the order the rows first show them
\* (the keys of the dict counts, which keeps insertion order)
RECURSIVE CountKeys(_)
CountKeys(rows) ==
    IF rows = <<>> THEN <<>>
    ELSE LET front == CountKeys(SubSeq(rows, 1, Len(rows) - 1))
             k == rows[Len(rows)].book_id
         IN IF \E i \in 1..Len(front) : front[i] = k THEN front ELSE Append(front, k)

\* counts[key]: the number of rows of the book
BorrowCount(rows, k) == Cardinality({i \in 1..Len(rows) : rows[i].book_id = k})

\* one insertion of a stable sort by count, largest first: the item goes
\* behind every item whose count is not smaller
InsertByCount(sorted, item) ==
    LET ahead == {i \in 1..Len(sorted) : sorted[i][2] >= item[2]}
        n == IF ahead = {} THEN 0 ELSE CHOOSE i \in ahead : \A j \in ahead : j <= i
    IN SubSeq(sorted, 1, n) \o <<item>> \o SubSeq(sorted, n + 1, Len(sorted))

\* sorted(counts.items(), key=lambda x: x[1], reverse=True): stable, so items
\* of equal count stay in the order of counts
RECURSIVE SortedCounts(_)
SortedCounts(items) ==
    IF items = <<>> THEN <<>>
    ELSE InsertByCount(SortedCounts(SubSeq(items, 1, Len(items) - 1)), items[Len(items)])

Truncate(seq, limit) == SubSeq(seq, 1, IF limit < Len(seq) THEN limit ELSE Len(seq))

TopBorrowed(rows, limit) ==
    LET keys == CountKeys(rows)
        items == [i \in 1..Len(keys) |-> <<keys[i], BorrowCount(rows, keys[i])>>]
    IN Truncate(SortedCounts(items), limit)

\* the orders in which a select with no ORDER BY can give n rows
SelectOrders(n) ==
    {p \in [1..n -> 1..n] : \A i, j \in 1..n : p[i] = p[j] => i = j}

\* the select has no ORDER BY, so the rows come in an order the store picks;
\* a row whose book is gone embeds books as None, and b["title"] raises
\* TypeError
report_top_borrowed(c, limit) ==
    /\ Begin(c, "report_top_borrowed", 0, 0)
    /\ IF \E i \in 1..Len(borrow_records) : borrow_records[i].book_id \notin DOMAIN books
         THEN /\ End(c, "TypeError")
              /\ UNCHANGED report
         ELSE /\ End(c, "ok")
              /\ \E p \in SelectOrders(Len(borrow_records)) :
                    report' = [name |-> "report_top_borrowed", limit |-> limit,
                               rows |-> TopBorrowed([i \in 1..Len(borrow_records) |->
                                                       borrow_records[p[i]]], limit)]
    /\ UNCHANGED <<store, now>>

\* WHERE return_date IS NULL AND borrow_date < NOW() - INTERVAL '14 days',
\* over borrow_records JOIN members JOIN books
OverdueRecords ==
    {i \in 1..Len(borrow_records) :
        /\ borrow_records[i].member_id \in members
        /\ borrow_records[i].book_id \in DOMAIN books
        /\ IsOpen(borrow_records[i])
        /\ borrow_records[i].borrow_date < now - OverdueDays}

\* the rows of a set of records, as <<record, borrow_date>>, by record id
RECURSIVE RowsOf(_)
RowsOf(ids) ==
    IF ids = {} THEN <<>>
    ELSE LET i == CHOOSE x \in ids : \A y \in ids : y <= x
         IN Append(RowsOf(ids \ {i}), <<i, borrow_records[i].borrow_date>>)

report_overdue_members(c) ==
    /\ Begin(c, "report_overdue_members", 0, 0)
    /\ End(c, "ok")
    /\ report' = [name |-> "report_overdue_members", limit |-> 0,
                  rows |-> RowsOf(OverdueRecords)]
    /\ UNCHANGED <<store, now>>

\* ---------------------------------------------------------------- store failure
\* execute() raises (the store rejects the statement or cannot be reached):
\* the statement has no effect and, nothing catching it, the exception ends
\* the call
api_error(c) ==
    /\ pc[c] # "idle"
    /\ End(c, "APIError")
    /\ Same(c)
    /\ UNCHANGED <<store, now, report>>

\* ---------------------------------------------------------------- clock
Tick ==
    /\ now < MaxTime
    /\ now' = now + 1
    /\ UNCHANGED <<store, locals, report>>

\* a loan period passes at once (from an early day only, which bounds the clock)
Wait ==
    /\ now <= MaxTime
    /\ now' = now + OverdueDays
    /\ UNCHANGED <<store, locals, report>>

\* ---------------------------------------------------------------- Next
AddSteps ==
    \/ \E c \in Clients : add_member(c)
    \/ \E c \in Clients, s \in StockInputs : add_book(c, s)

UpdateSteps ==
    \E c \in Clients, b \in BookIds, s \in StockInputs : update_book_stock(c, b, s)

BorrowSteps ==
    \/ \E c \in Clients, m \in MemberIds, b \in BookIds : borrow_book(c, m, b)
    \/ \E c \in Clients : borrow_update(c)
    \/ \E c \in Clients : borrow_insert(c)

ReturnSteps ==
    \/ \E c \in Clients, m \in MemberIds, b \in BookIds : return_book(c, m, b)
    \/ \E c \in Clients : return_close(c)
    \/ \E c \in Clients : return_select_stock(c)
    \/ \E c \in Clients : return_update(c)

DeleteSteps ==
    \/ \E c \in Clients, m \in MemberIds : delete_member(c, m)
    \/ \E c \in Clients : delete_member_delete(c)
    \/ \E c \in Clients, b \in BookIds : delete_book(c, b)
    \/ \E c \in Clients : delete_book_delete(c)

FailSteps == \E c \in Clients : api_error(c)

ReportSteps ==
    \/ \E c \in Clients, l \in Limits : report_top_borrowed(c, l)
    \/ \E c \in Clients : report_overdue_members(c)

\* every function of the program, the failures of the store, and the clock
Next ==
    AddSteps \/ UpdateSteps \/ BorrowSteps \/ ReturnSteps \/ DeleteSteps
        \/ ReportSteps \/ FailSteps \/ Tick \/ Wait
Spec == Init /\ [][Next]_vars

\* the calls that work on the rows the store starts with; the clock stands still
NextCore == UpdateSteps \/ BorrowSteps \/ ReturnSteps \/ DeleteSteps
SpecCore == Init /\ [][NextCore]_vars

\* borrow_book and return_book calls only (no update_book_stock, no delete)
NextCirc == BorrowSteps \/ ReturnSteps \/ Tick
SpecCirc == Init /\ [][NextCirc]_vars

\* borrow_book and return_book calls, each client's started call being
\* scheduled fairly: the statement it is about to execute is executed
Continue(c) ==
    \/ borrow_update(c)
    \/ borrow_insert(c)
    \/ return_close(c)
    \/ return_select_stock(c)
    \/ return_update(c)

\* the top-borrowed report over every small table of records on MaxBooks books
RecordRows ==
    [member_id : {1, 2}, book_id : 1..MaxBooks, borrow_date : {0},
     return_date : {NULL, 0}]

RecordTables ==
    UNION {[1..n -> RecordRows] : n \in 0..MaxRecords}

InitTop ==
    /\ books \in [1..MaxBooks -> 0..MaxStock]
    /\ initial_stock = books
    /\ members = {1, 2}
    /\ borrow_records \in RecordTables
    /\ next_book_id = MaxBooks + 1
    /\ next_member_id = 3
    /\ now = 0
    /\ pc = [c \in Clients |-> "idle"]
    /\ op = [c \in Clients |-> "none"]
    /\ member_id = [c \in Clients |-> 0]
    /\ book_id = [c \in Clients |-> 0]
    /\ stock_read = [c \in Clients |-> 0]
    /\ rec_id = [c \in Clients |-> 0]
    /\ result = [c \in Clients |-> "none"]
    /\ calls = [c \in Clients |-> 0]
    /\ report = NoReport

NextTop == \E c \in Clients, l \in Limits : report_top_borrowed(c, l)
SpecTop == InitTop /\ [][NextTop]_vars

NextLive == BorrowSteps \/ ReturnSteps
SpecLive == Init /\ [][NextLive]_vars /\ \A c \in Clients : WF_vars(Continue(c))

\* ---------------------------------------------------------------- properties
Quiescent == \A c \in Clients : pc[c] = "idle"

\* the step in which client c calls function f
Starts(c, f) == calls'[c] = calls[c] + 1 /\ op'[c] = f

OpenLoans(b) == Cardinality(OpenForBook(borrow_records, b))

\* a row the store once handed out under this id and a delete has removed
BookRemoved(b) == b < next_book_id /\ b \notin DOMAIN books
MemberRemoved(m) == m < next_member_id /\ m \notin members

\* C1: in every reachable state every book's stock is >= 0.
C1_StockNonNegative == \A b \in DOMAIN books : books[b] >= 0

\* C2: whenever no borrow or return is in progress, after borrow_book and
\* return_book calls only, each book's initial stock minus its current stock
\* is the number of Open records of that book.
C2_StockMatchesOpenLoans ==
    Quiescent => \A b \in DOMAIN books : initial_stock[b] - books[b] = OpenLoans(b)

\* C3: when the only two calls made are borrow_book calls of two clients for
\* different members on one book that started with stock 1, exactly one of
\* them succeeded, the other ended Unavailable or Conflict, one Open record
\* exists and the stock is 0.
C3_OneOfTwoBorrowersWins ==
    \A c, d \in Clients :
        ( /\ c # d
          /\ calls[c] = 1 /\ calls[d] = 1 /\ TotalCalls = 2
          /\ pc[c] = "idle" /\ pc[d] = "idle"
          /\ op[c] = "borrow_book" /\ op[d] = "borrow_book"
          /\ book_id[c] = book_id[d] /\ member_id[c] # member_id[d]
          /\ book_id[c] \in DOMAIN books /\ initial_stock[book_id[c]] = 1 )
        => /\ (result[c] = "ok") # (result[d] = "ok")
           /\ {result[c], result[d]} \subseteq {"ok", "Unavailable", "Conflict"}
           /\ OpenLoans(book_id[c]) = 1
           /\ books[book_id[c]] = 0

\* C4: a client whose two calls are the only calls made, the second a
\* return_book(m, b) that succeeded (so the first was its borrow_book(m, b)
\* on the starting store, which holds no record), leaves the stock of b at
\* the value it had before the borrow and exactly one record, for (m, b),
\* which is Closed.
BorrowThenReturnDone(c) ==
    /\ calls[c] = 2 /\ TotalCalls = 2
    /\ pc[c] = "idle" /\ op[c] = "return_book" /\ result[c] = "ok"

C4_BorrowThenReturnRestores ==
    \A c \in Clients :
        BorrowThenReturnDone(c) =>
            /\ book_id[c] \in DOMAIN books
            /\ books[book_id[c]] = initial_stock[book_id[c]]
            /\ Len(borrow_records) = 1
            /\ borrow_records[1].member_id = member_id[c]
            /\ borrow_records[1].book_id = book_id[c]
            /\ ~IsOpen(borrow_records[1])

C4_Witness == \E c \in Clients : BorrowThenReturnDone(c) /\ initial_stock[book_id[c]] > 0

\* C5: delete_book / delete_member ends Conflict and changes no table when an
\* Open record references the target at its check; otherwise it goes on to
\* its delete statement, which (no loan on the target having been opened
\* since the check, as when nothing is interleaved) removes exactly the
\* target row and ends ok; borrow_records is never changed by either.
C5_DeleteGuard ==
    [][\A c \in Clients :
        /\ Starts(c, "delete_book") =>
              /\ UNCHANGED <<books, members, borrow_records>>
              /\ IF OpenForBook(borrow_records, book_id'[c]) # {}
                   THEN pc'[c] = "idle" /\ result'[c] = "Conflict"
                   ELSE pc'[c] = "delete_book_delete"
        /\ ( /\ pc[c] = "delete_book_delete" /\ pc'[c] # pc[c]
             /\ OpenForBook(borrow_records, book_id[c]) = {} ) =>
              /\ pc'[c] = "idle" /\ result'[c] = "ok"
              /\ DOMAIN books' = DOMAIN books \ {book_id[c]}
              /\ \A x \in DOMAIN books' : books'[x] = books[x]
              /\ UNCHANGED <<members, borrow_records>>
        /\ Starts(c, "delete_member") =>
              /\ UNCHANGED <<books, members, borrow_records>>
              /\ IF OpenForMember(borrow_records, member_id'[c]) # {}
                   THEN pc'[c] = "idle" /\ result'[c] = "Conflict"
                   ELSE pc'[c] = "delete_member_delete"
        /\ ( /\ pc[c] = "delete_member_delete" /\ pc'[c] # pc[c]
             /\ OpenForMember(borrow_records, member_id[c]) = {} ) =>
              /\ pc'[c] = "idle" /\ result'[c] = "ok"
              /\ members' = members \ {member_id[c]}
              /\ UNCHANGED <<books, borrow_records>>
      ]_vars

\* a delete_book refused while its book is on loan, and a delete_member done
C5_Witness ==
    \E c, d \in Clients :
        /\ pc[c] = "idle" /\ op[c] = "delete_book" /\ result[c] = "Conflict"
        /\ book_id[c] \in DOMAIN books
        /\ OpenForBook(borrow_records, book_id[c]) # {}
        /\ pc[d] = "idle" /\ op[d] = "delete_member" /\ result[d] = "ok"
        /\ MemberRemoved(member_id[d])

\* C6: no Open record references a book row or a member row that a delete
\* has removed.
C6_NoOpenRecordOnRemovedRow ==
    \A i \in 1..Len(borrow_records) :
        IsOpen(borrow_records[i]) =>
            /\ ~BookRemoved(borrow_records[i].book_id)
            /\ ~MemberRemoved(borrow_records[i].member_id)

\* C7: every (member_id, book_id) pair has at most one Open record.
C7_OneOpenRecordPerPair ==
    \A m \in MemberIds, b \in BookIds : Cardinality(OpenFor(borrow_records, m, b)) <= 1

\* C8: return_book(m, b) called when no Open record for (m, b) exists ends
\* at once with NotFound and changes neither a stock nor a record.
C8_ReturnWithoutOpenRecord ==
    [][\A c \in Clients :
        ( /\ Starts(c, "return_book")
          /\ OpenFor(borrow_records, member_id'[c], book_id'[c]) = {} )
        => /\ pc'[c] = "idle" /\ result'[c] = "NotFound"
           /\ UNCHANGED <<books, borrow_records>>
      ]_vars

\* a return refused for a pair whose only record is already Closed
C8_Witness ==
    \E c \in Clients :
        /\ pc[c] = "idle" /\ op[c] = "return_book" /\ result[c] = "NotFound"
        /\ \E i \in 1..Len(borrow_records) :
              /\ borrow_records[i].member_id = member_id[c]
              /\ borrow_records[i].book_id = book_id[c]
              /\ ~IsOpen(borrow_records[i])

\* C9: borrow_book(m, b) ends at once with NotFound when b has no row and
\* with Unavailable when the stock it reads is <= 0, and in both cases
\* changes neither a stock nor a record.
C9_BorrowRefusals ==
    [][\A c \in Clients :
        Starts(c, "borrow_book") =>
            /\ book_id'[c] \notin DOMAIN books =>
                  /\ pc'[c] = "idle" /\ result'[c] = "NotFound"
                  /\ UNCHANGED <<books, borrow_records>>
            /\ (book_id'[c] \in DOMAIN books /\ books[book_id'[c]] <= 0) =>
                  /\ pc'[c] = "idle" /\ result'[c] = "Unavailable"
                  /\ UNCHANGED <<books, borrow_records>>
      ]_vars

\* one borrow refused on stock 0 or less, another on a book whose row is gone
C9_Witness ==
    \E c, d \in Clients :
        /\ pc[c] = "idle" /\ op[c] = "borrow_book" /\ result[c] = "Unavailable"
        /\ pc[d] = "idle" /\ op[d] = "borrow_book" /\ result[d] = "NotFound"
        /\ book_id[d] \notin DOMAIN books

\* C10: a record is never deleted, and once its return_date is set no step
\* writes the record again.
C10_ClosedRecordImmutable ==
    [][ /\ Len(borrow_records') >= Len(borrow_records)
        /\ \A i \in 1..Len(borrow_records) :
              ~IsOpen(borrow_records[i]) => borrow_records'[i] = borrow_records[i]
      ]_vars

\* C11: an update_book_stock call never leaves its book with a negative
\* stock: a negative new_stock is refused with InvalidArgument and the stock
\* stays as it was.
C11_NegativeStockRefused ==
    [][\A c \in Clients :
        ( /\ Starts(c, "update_book_stock")
          /\ book_id'[c] \in DOMAIN books'
          /\ books'[book_id'[c]] < 0 )
        => /\ result'[c] = "InvalidArgument"
           /\ books' = books
      ]_vars

\* the books of the rows, most borrowed first and the smaller book_id first
\* among books of equal count
RECURSIVE RankedBooks(_, _)
RankedBooks(rows, ids) ==
    IF ids = {} THEN <<>>
    ELSE LET first == CHOOSE k \in ids : \A j \in ids :
                          \/ BorrowCount(rows, k) > BorrowCount(rows, j)
                          \/ BorrowCount(rows, k) = BorrowCount(rows, j) /\ k <= j
         IN <<<<first, BorrowCount(rows, first)>>>> \o RankedBooks(rows, ids \ {first})

ExpectedTop(rows, limit) ==
    Truncate(RankedBooks(rows, {rows[i].book_id : i \in 1..Len(rows)}), limit)

\* C12: a top-borrowed report that ends normally lists the books by
\* descending count of their records, open and closed, books of equal count
\* by ascending book_id whatever the order of the records, cut to the first
\* limit entries.
C12_TopBorrowedOrder ==
    [][\A c \in Clients :
        Starts(c, "report_top_borrowed") /\ result'[c] = "ok"
        => report'.rows = ExpectedTop(borrow_records, report'.limit)
      ]_vars

\* the records the overdue report is to list: Open, and borrowed more than
\* OverdueDays before the current time
OpenAndLate ==
    {i \in 1..Len(borrow_records) :
        /\ IsOpen(borrow_records[i])
        /\ now - borrow_records[i].borrow_date > OverdueDays}

\* C13: the overdue report has a row for a record exactly when the record is
\* Open and was borrowed more than 14 days before the current time (so a
\* record that a return has closed is not in it).
C13_OverdueExactlyOpenAndLate ==
    [][\A c \in Clients :
        Starts(c, "report_overdue_members")
        => {report'.rows[i][1] : i \in 1..Len(report'.rows)} = OpenAndLate
      ]_vars

\* C14: the stock write of borrow_book and of return_book changes the stock
\* only when the stock at that moment is the value the call read.
C14_StockWriteIsConditional ==
    [][\A c \in Clients :
        ( /\ pc[c] \in {"borrow_update", "return_update"}
          /\ pc'[c] # pc[c]
          /\ book_id[c] \in DOMAIN books
          /\ books[book_id[c]] # stock_read[c] )
        => books' = books
      ]_vars

\* how a call ends when an exception leaves the function
Crashes == {"IndexError", "TypeError", "APIError"}

\* C16: a return_book call that has closed its record never ends in a crash,
\* and ends "ok" only if its stock increment took effect on the book row.
C16_PartialReturnReported ==
    [][\A c \in Clients :
        ( /\ pc[c] \in {"return_select_stock", "return_update"}
          /\ pc'[c] = "idle" )
        => /\ result'[c] \notin Crashes
           /\ result'[c] = "ok" =>
                 /\ book_id[c] \in DOMAIN books'
                 /\ books'[book_id[c]] = stock_read[c] + 1
      ]_vars

\* C17: the record return_book picks is one with the earliest borrow_date
\* among the Open records of its (member, book) pair.
C17_ReturnPicksEarliest ==
    [][\A c \in Clients :
        (Starts(c, "return_book") /\ pc'[c] = "return_close") =>
            \A j \in OpenFor(borrow_records, member_id'[c], book_id'[c]) :
                borrow_records[rec_id'[c]].borrow_date <= borrow_records[j].borrow_date
      ]_vars

\* C19: the clients whose last call is a return_book that reported success
\* are never more than the records that went from Open to Closed.
SuccessfulReturners ==
    {c \in Clients : pc[c] = "idle" /\ op[c] = "return_book" /\ result[c] = "ok"}

ClosedRecords == {i \in 1..Len(borrow_records) : ~IsOpen(borrow_records[i])}

C19_OneSuccessPerClosedRecord ==
    Cardinality(SuccessfulReturners) <= Cardinality(ClosedRecords)

\* C20: a borrow_book call writes a stock and inserts a record only while
\* its member_id has a row in members.
C20_BorrowerMustExist ==
    [][\A c \in Clients :
        ( /\ pc[c] \in {"borrow_update", "borrow_insert"}
          /\ pc'[c] # pc[c]
          /\ member_id[c] \notin members )
        => UNCHANGED <<books, borrow_records>>
      ]_vars

\* position of a statement within its function
StatementRank(l) ==
    CASE l = "idle" -> 0
      [] l \in {"borrow_update", "return_close"} -> 1
      [] l \in {"borrow_insert", "return_select_stock"} -> 2
      [] OTHER -> 3

C15_FailedInsertRollsBack ==
    [][\A c \in Clients :
        ( /\ pc[c] = "borrow_insert"
          /\ pc'[c] = "idle"
          /\ borrow_records' = borrow_records )
        => /\ result'[c] = "Internal"
           /\ book_id[c] \in DOMAIN books' => books'[book_id[c]] = stock_read[c]
      ]_vars

====
